---- MODULE Spec2Model ----
(***************************************************************************)
(* A model of the Orca orchestration layer: the OrchestrationAgent         *)
(* scheduler (task queue, round-robin index, interval timer, cycles that   *)
(* interleave at their awaits), the monitored_urls and                     *)
(* orchestration_deployments rows it reads and writes, and the             *)
(* feature_requests table with its writers.                                *)
(*                                                                         *)
(* Spec      the scheduler over monitored_urls rows that come and go       *)
(* DepSpec   the scheduler over one url and the deployments joined to it   *)
(* FeatSpec  the scheduler over one requested feature, with PUT status     *)
(* TableSpec the requests that insert and update feature_requests rows     *)
(* LiveSpec  Spec with a timer that keeps firing and awaits that resolve   *)
(* LoadSpec  POST /refresh reloading the queue while rows and clock change *)
(* AgentSpec the developer agent client: requests, replies and timeouts    *)
(* LoopSpec  one cycle working through two requested features              *)
(* ChatSpec  POST /api/agent/chat and /reset on the in-memory sessions     *)
(* IntentSpec fallbackIntentParsing applied to a chat message              *)
(* TimerSpec start, stop and updateConfig with the cycles they begin       *)
(* ConnSpec  implementFeature calls over a socket that connects and drops  *)
(* TaskSpec  the scheduler with POST /task appending to the queue          *)
(* DeploySpec handleDeployCommand writing repositories, urls, a deployment *)
(***************************************************************************)
EXTENDS Integers, Sequences, FiniteSets, TLC

\* ------------------------------------------------------------------ bounds

MaxCycles == 2      \* cycles that may be in flight at once
NumUrls == 2        \* monitored_urls rows
NumDeps == 1        \* orchestration_deployments rows
MaxRuns == 1        \* cap of run_count
NumFeatures == 2    \* feature_requests rows
NumDefaultTasks == 4
MaxRequests == 3    \* implementFeature calls, each with its own messageId
NumSessions == 1    \* chat sessions
MaxChats == 11      \* POST /chat requests
MaxInFlight == 2    \* POST /chat requests waiting for the agent at once
HistoryCap == 20
MaxLen == 3         \* pieces of a chat message
MaxInterval == 3    \* largest intervalMinutes a config request carries
MaxCustom == 2      \* tasks appended by addTask that the queue holds at once
MaxExtracted == 2   \* repositories, and social urls, extracted from one message
MaxRepoRows == 2    \* github_repos rows
DefaultInterval == 2

Slots == 1..MaxCycles
UrlIds == 1..NumUrls
DepIds == 1..NumDeps
FeatureIds == 1..NumFeatures
MsgIds == 1..MaxRequests
SessionIds == 1..NumSessions

\* request inputs
Names == {"Dark Mode", "dark mode"}
Accounts == {"acme", "beta"}
Descriptions == {"d1", "d2"}

VARIABLES
  dbConfigured,      \* SUPABASE_URL / SUPABASE_ANON_KEY are set
  urls,              \* monitored_urls rows
  deps,              \* orchestration_deployments rows
  taskQueue,         \* OrchestrationAgent.taskQueue
  currentTaskIndex,  \* OrchestrationAgent.currentTaskIndex
  initialized,       \* OrchestrationAgent.initialized
  isRunning,         \* OrchestrationAgent.isRunning
  intervalId,        \* OrchestrationAgent.intervalId: "null" or "timer"
  cyc,               \* the executeOrchestrationCycle calls in flight
  rr,                \* history: the getNextTask calls made on the present queue
  features,          \* feature_requests rows
  resp,              \* the answer to the last request that wrote feature_requests
  lastLoad,          \* history: the rows the last answered POST /refresh read
  parked,            \* history: the features whose reply carried neither marker
  dev,               \* DeveloperAgentClient: messageCallbacks, timeouts, promises
  inbox,             \* the inReplyTo of the socket messages on their way in
  userSessions,      \* routes/agent.js: each session's history, absent before its first chat
  chats,             \* the POST /chat requests at their await, and what was appended
  parse,             \* server.js: a chat message and the intent parsed from it
  intervalMinutes,   \* OrchestrationAgent.intervalMinutes
  timers,            \* the periods of the armed intervals; intervalId names the last
  deploy,            \* server.js: the handleDeployCommand call at its await
  githubRepos,       \* the number of github_repos rows
  conn               \* DeveloperAgentClient: the socket, connected, connecting, and the calls

vars == <<dbConfigured, urls, deps, taskQueue, currentTaskIndex, initialized,
          isRunning, intervalId, cyc, rr, features, resp, lastLoad, parked,
          dev, inbox,
          userSessions, chats,
          parse,
          intervalMinutes, timers,
          deploy, githubRepos,
          conn>>

\* ------------------------------------------------------------------ tasks

NoTask == [type |-> "none", id |-> 0]
UrlTask(u) == [type |-> "url_analysis", id |-> u]
DeploymentTask(d) == [type |-> "deployment_monitoring", id |-> d]
DefaultTask(k) == [type |-> "default", id |-> k]
CustomTask(k) == [type |-> "custom", id |-> k]

Min(S) == CHOOSE x \in S : \A y \in S : x <= y

RECURSIVE Ascending(_)
Ascending(S) == IF S = {} THEN <<>>
                ELSE <<Min(S)>> \o Ascending(S \ {Min(S)})

\* ------------------------------------------------------------------ database reads

NoUrlRow == [status |-> "absent", checked |-> FALSE]
NoDepRow == [status |-> "absent", due |-> FALSE, url |-> 0,
             run_count |-> 0, error_count |-> 0, last_error |-> "null"]

getUrlsToCheck == Ascending({u \in UrlIds : urls[u].status = "active"})

getDeploymentsToRun ==
  Ascending({d \in DepIds : deps[d].status = "active" /\ deps[d].due})

\* a load that takes a deployment with no joined row
AlwaysJoined(d) == TRUE

\* the deployment's joined monitored_urls row carries a url
HasJoinedUrl(d) == deps[d].url \in UrlIds /\ urls[deps[d].url].status # "absent"

RECURSIVE DeploymentTasks(_)
DeploymentTasks(ds) ==
  IF ds = <<>> THEN <<>>
  ELSE (IF HasJoinedUrl(Head(ds)) THEN <<DeploymentTask(Head(ds))>> ELSE <<>>)
       \o DeploymentTasks(Tail(ds))

\* a load that pushes onto the queue it finds
LoadKeepsQueue(urlsToCheck, deployments) ==
  taskQueue \o [i \in 1..Len(urlsToCheck) |-> UrlTask(urlsToCheck[i])]
            \o DeploymentTasks(deployments)

loadTasksFromDatabase(urlsToCheck, deployments) ==
  [i \in 1..Len(urlsToCheck) |-> UrlTask(urlsToCheck[i])] \o DeploymentTasks(deployments)

setupDefaultTasks == [k \in 1..NumDefaultTasks |-> DefaultTask(k)]

\* ------------------------------------------------------------------ feature_requests

NoFeature == [status |-> "absent", feature_name |-> "", target_account |-> "",
              description |-> "", github_repo |-> FALSE, assigned_to |-> "null",
              implementation_started_at |-> FALSE,
              implementation_completed_at |-> FALSE,
              implementation_failed_at |-> FALSE,
              implementation_error |-> FALSE]

NoResponse == [op |-> "none", code |-> "none", feature_name |-> "", target_account |-> ""]

\* feature_name.toLowerCase().trim()
LowerTrim(n) == IF n = "Dark Mode" THEN "dark mode" ELSE n

Existing(n, a) ==
  {f \in FeatureIds : /\ features[f].status # "absent"
                      /\ features[f].feature_name = n
                      /\ features[f].target_account = a}

\* a table without the constraint
NoUniqueConstraint(n, a) == FALSE

\* UNIQUE(feature_name, target_account)
UniqueViolation(n, a) == Existing(n, a) # {}

FreeIds == {f \in FeatureIds : features[f].status = "absent"}

NewFeature(n, a, d, repo) ==
  [NoFeature EXCEPT !.status = "requested", !.feature_name = n, !.target_account = a,
                    !.description = d, !.github_repo = repo]

Inserted(n, a, d, repo) == [features EXCEPT ![Min(FreeIds)] = NewFeature(n, a, d, repo)]

\* ON CONFLICT (feature_name, target_account) DO UPDATE with the columns given
Upserted(n, a, d) ==
  IF UniqueViolation(n, a)
  THEN [features EXCEPT ![Min(Existing(n, a))] =
          [@ EXCEPT !.description = d, !.status = "requested"]]
  ELSE Inserted(n, a, d, FALSE)

getRequestedFeatureRequests ==
  Ascending({f \in FeatureIds : features[f].status = "requested"})

updateFeatureRequestStatus(f, status) ==
  [features EXCEPT ![f] =
     [@ EXCEPT !.status = status,
               !.assigned_to = IF status = "pending" THEN "developer-agent" ELSE @,
               !.implementation_started_at = IF status = "pending" THEN TRUE ELSE @,
               !.implementation_completed_at = IF status = "shipped" THEN TRUE ELSE @,
               !.implementation_failed_at = IF status = "failed" THEN TRUE ELSE @,
               !.implementation_error = IF status = "failed" THEN TRUE ELSE @]]

PutStatuses == {"requested", "developing", "pr_raised", "shipped"}

\* ------------------------------------------------------------------ round robin

\* a getNextTask that rewinds the index when the queue is empty
GetNextTaskResetsIndex(q, idx) ==
  IF Len(q) = 0 THEN [task |-> NoTask, idx |-> 0]
  ELSE [task |-> IF idx < Len(q) THEN q[idx + 1] ELSE NoTask,
        idx |-> (idx + 1) % Len(q)]

getNextTask(q, idx) ==
  IF Len(q) = 0 THEN [task |-> NoTask, idx |-> idx]
  ELSE [task |-> IF idx < Len(q) THEN q[idx + 1] ELSE NoTask,
        idx |-> (idx + 1) % Len(q)]

\* ------------------------------------------------------------------ cycles

\* One executeOrchestrationCycle call between two of its awaits.  pc names the
\* await it is parked at; ret names the call site of loadTasksFromDatabase;
\* parsed is what parseImplementationResponse made of the response received
\* for the feature at hand.
IdleCycle == [pc |-> "idle", ret |-> "none", todo |-> <<>>, task |-> NoTask,
              found |-> 0, sent |-> 0, chat |-> "none", unlogged |-> {},
              parsed |-> "none"]

Free(c) == cyc[c].pc = "idle"
FreeSlot == Min({c \in Slots : Free(c)})
HasFreeSlot == \E c \in Slots : Free(c)

\* a query of a configured database succeeds or fails; without credentials
\* every query fails
DbOutcomes == IF dbConfigured THEN BOOLEAN ELSE {FALSE}

NoCalls == [q |-> <<>>, start |-> 0, calls |-> <<>>]

\* the history of the getNextTask calls made since the queue last changed:
\* the queue, the index before the first call, and what the calls returned
Kept(q) == IF q = taskQueue THEN rr ELSE NoCalls

Recorded(q, idx, task) ==
  IF Len(q) = 0 THEN NoCalls
  ELSE IF Kept(q).q = q /\ Len(Kept(q).calls) < Len(q)
       THEN [Kept(q) EXCEPT !.calls = Append(@, task)]
       ELSE [q |-> q, start |-> idx, calls |-> <<task>>]

\* ------------------------------------------------------------------ developer agent client

\* no implementFeature call yet: messageCallbacks is empty, no timeout is armed
NoRequests == [callbacks |-> {}, timers |-> {},
               promise |-> [id \in MsgIds |-> "none"],
               settles |-> [id \in MsgIds |-> 0]]

\* resolve or reject is called on the promise of request id; a settled promise
\* keeps its state
Settle(d, id, how) ==
  [d EXCEPT !.promise[id] = IF @ = "pending" THEN how ELSE @,
            !.settles[id] = @ + 1]

\* a timeout callback that leaves the entry in messageCallbacks
TimeoutKeepsCallback(d, id) ==
  [Settle(d, id, "rejected") EXCEPT !.timers = @ \ {id}]

\* the setTimeout callback of implementFeature
TimedOut(d, id) ==
  [Settle(d, id, "rejected") EXCEPT !.timers = @ \ {id}, !.callbacks = @ \ {id}]

\* the callback stored under the messageId, then the delete of the entry
Delivered(d, id) ==
  [Settle(d, id, "resolved") EXCEPT !.timers = @ \ {id}, !.callbacks = @ \ {id}]

\* an implementFeature call: where it stands, whether its feature carries a
\* github_repo, and whether connected held when it emitted
NoCall == [pc |-> "none", repo |-> FALSE, live |-> FALSE]

\* a new client: no socket, connected and connecting false.  attempt is the
\* promise connect() returned to the call that created the socket, timeout
\* the 10 s timer of that connect()
NoConnection == [socket |-> FALSE, connected |-> FALSE, connecting |-> FALSE,
                 attempt |-> "none", timeout |-> FALSE,
                 calls |-> [id \in MsgIds |-> NoCall]]

\* inReplyTo of an incoming message: 0 when the field is missing, a messageId
\* of this client, or an id this client never issued
InReplyTo == 0..(MaxRequests + 1)

\* ------------------------------------------------------------------ chat sessions

NoSessions == [s \in SessionIds |-> [exists |-> FALSE, history |-> <<>>]]

\* no request waits, none has arrived, nothing was appended since the reset
NoChats == [waiting |-> {}, arrived |-> 0, appended |-> [s \in SessionIds |-> <<>>]]

\* the two entries a chat pushes; n stands for the message and its answer
Entries(n) == <<[role |-> "user", n |-> n], [role |-> "assistant", n |-> n]>>

\* a trim that keeps the oldest entries
KeepFirst(h) == IF Len(h) > HistoryCap THEN SubSeq(h, 1, HistoryCap) ELSE h

\* if (history.length > 20) history = history.slice(-20)
KeepLast(h) ==
  IF Len(h) > HistoryCap THEN SubSeq(h, Len(h) - HistoryCap + 1, Len(h)) ELSE h

\* ------------------------------------------------------------------ intent parsing

\* A message is a sequence of pieces of text, a keyword a sequence of pieces
\* too: "deployment" is "deploy" followed by "ment", "show" is "s" followed
\* by "how".  No two pieces join to a keyword in any other way.
LowerPieces == {"deploy", "ment", "github", "monitor", "status", "feature", "request",
                "config", "setting", "help", "how", "s"}
UpperPieces == {"DEPLOY", "GitHub", "Help"}
Pieces == LowerPieces \cup UpperPieces

Messages == UNION {[1..n -> Pieces] : n \in 0..MaxLen}

\* String.prototype.toLowerCase
toLowerCase(message) ==
  [i \in 1..Len(message) |->
     CASE message[i] = "DEPLOY" -> "deploy"
       [] message[i] = "GitHub" -> "github"
       [] message[i] = "Help" -> "help"
       [] message[i] = " many URLs are being " -> " many urls are being "
       [] OTHER -> message[i]]

Word(k) == IF k = "deployment" THEN <<"deploy", "ment">> ELSE <<k>>

\* String.prototype.includes
includes(message, k) ==
  \E i \in 1..Len(message) :
    /\ i + Len(Word(k)) - 1 <= Len(message)
    /\ SubSeq(message, i, i + Len(Word(k)) - 1) = Word(k)

NoIntent == [type |-> "none", confidence |-> "none"]
NoParse == [done |-> FALSE, message |-> <<>>, result |-> NoIntent]

\* a parser that tests the message as it was typed
ParsesAsTyped(message) ==
  IF includes(message, "deploy") \/ (includes(message, "github") /\ includes(message, "monitor"))
  THEN [type |-> "deploy", confidence |-> "0.6"]
  ELSE IF includes(message, "status") \/ includes(message, "deployment")
  THEN [type |-> "status", confidence |-> "0.6"]
  ELSE IF includes(message, "feature") \/ includes(message, "request")
  THEN [type |-> "feature_query", confidence |-> "0.6"]
  ELSE IF includes(message, "config") \/ includes(message, "setting")
  THEN [type |-> "config", confidence |-> "0.6"]
  ELSE IF includes(message, "help") \/ includes(message, "how")
  THEN [type |-> "help", confidence |-> "0.6"]
  ELSE [type |-> "general", confidence |-> "0.4"]

fallbackIntentParsing(message) ==
  LET lowerMessage == toLowerCase(message) IN
  IF includes(lowerMessage, "deploy")
     \/ (includes(lowerMessage, "github") /\ includes(lowerMessage, "monitor"))
  THEN [type |-> "deploy", confidence |-> "0.6"]
  ELSE IF includes(lowerMessage, "status") \/ includes(lowerMessage, "deployment")
  THEN [type |-> "status", confidence |-> "0.6"]
  ELSE IF includes(lowerMessage, "feature") \/ includes(lowerMessage, "request")
  THEN [type |-> "feature_query", confidence |-> "0.6"]
  ELSE IF includes(lowerMessage, "config") \/ includes(lowerMessage, "setting")
  THEN [type |-> "config", confidence |-> "0.6"]
  ELSE IF includes(lowerMessage, "help") \/ includes(lowerMessage, "how")
  THEN [type |-> "help", confidence |-> "0.6"]
  ELSE [type |-> "general", confidence |-> "0.4"]

\* ------------------------------------------------------------------ deploy commands

\* no handleDeployCommand call yet.  written lists the rows the call inserted,
\* in the order of the inserts; firstUrl is the id of the first entry of type
\* url in its deployments array, 0 when that entry has none
NoDeploy == [pc |-> "idle", repos |-> 0, socials |-> 0, todo |-> 0,
             written |-> <<>>, firstUrl |-> 0, hasUrl |-> FALSE]

NoLoad == [done |-> FALSE, again |-> FALSE,
           urls |-> [u \in UrlIds |-> NoUrlRow], deps |-> [d \in DepIds |-> NoDepRow]]

Init ==
  /\ conn = NoConnection
  /\ deploy = NoDeploy /\ githubRepos = 0
  /\ intervalMinutes = DefaultInterval /\ timers = <<>>
  /\ parse = NoParse
  /\ userSessions = NoSessions /\ chats = NoChats
  /\ dev = NoRequests /\ inbox = {}
  /\ lastLoad = NoLoad
  /\ parked = {}
  /\ dbConfigured \in BOOLEAN
  /\ urls = [u \in UrlIds |-> IF u = 1 THEN [status |-> "active", checked |-> FALSE]
                               ELSE NoUrlRow]
  /\ deps = [d \in DepIds |-> NoDepRow]
  /\ taskQueue = <<>>
  /\ currentTaskIndex = 0
  /\ initialized = FALSE
  /\ isRunning = FALSE
  /\ intervalId = "null"
  /\ cyc = [c \in Slots |-> IdleCycle]
  /\ rr = NoCalls
  /\ features = [f \in FeatureIds |-> NoFeature]
  /\ resp = NoResponse

\* ------------------------------------------------------------------ the timer

\* setInterval: one more interval is armed, and intervalId names it
setInterval(ts, minutes) == Append(ts, minutes)

\* a stop that leaves the interval armed
KeepsInterval(ts) == ts

\* if (this.intervalId) clearInterval(this.intervalId)
clearInterval(ts) == IF intervalId # "null" THEN SubSeq(ts, 1, Len(ts) - 1) ELSE ts

\* executeOrchestrationCycle up to its first await
StartCycle(c) ==
  cyc' = [cyc EXCEPT ![c] = [IdleCycle EXCEPT !.pc = IF initialized THEN "feat" ELSE "init"]]

\* start(): POST /api/orchestration/start, or initializeOrchestration at startup
start ==
  /\ ~isRunning
  /\ HasFreeSlot
  /\ StartCycle(FreeSlot)
  /\ timers' = setInterval(timers, intervalMinutes)
  /\ intervalId' = "timer"
  /\ isRunning' = TRUE
  /\ UNCHANGED <<dbConfigured, conn, deploy, githubRepos, intervalMinutes, parse, userSessions, chats, dev, inbox, lastLoad, parked, features, resp, urls, deps, taskQueue, currentTaskIndex, initialized, rr>>

stop ==
  /\ isRunning
  /\ timers' = clearInterval(timers)
  /\ intervalId' = "null"
  /\ isRunning' = FALSE
  /\ UNCHANGED <<dbConfigured, conn, deploy, githubRepos, intervalMinutes, parse, userSessions, chats, dev, inbox, lastLoad, parked, features, resp, urls, deps, taskQueue, currentTaskIndex, initialized, cyc, rr>>

\* the setInterval callback
Tick ==
  /\ timers # <<>>
  /\ HasFreeSlot
  /\ StartCycle(FreeSlot)
  /\ UNCHANGED <<dbConfigured, conn, deploy, githubRepos, intervalMinutes, timers, parse, userSessions, chats, dev, inbox, lastLoad, parked, features, resp, urls, deps, taskQueue, currentTaskIndex, initialized,
                 isRunning, intervalId, rr>>

\* POST /api/orchestration/trigger
Trigger ==
  /\ HasFreeSlot
  /\ StartCycle(FreeSlot)
  /\ UNCHANGED <<dbConfigured, conn, deploy, githubRepos, intervalMinutes, timers, parse, userSessions, chats, dev, inbox, lastLoad, parked, features, resp, urls, deps, taskQueue, currentTaskIndex, initialized,
                 isRunning, intervalId, rr>>

\* ------------------------------------------------------------------ the cycle's steps

\* initialize(): database.initialize() throws without credentials
CycInitialize(c) ==
  /\ cyc[c].pc = "init"
  /\ IF dbConfigured
     THEN /\ cyc' = [cyc EXCEPT ![c].pc = "load", ![c].ret = "init"]
          /\ UNCHANGED <<taskQueue, initialized>>
     ELSE /\ taskQueue' = setupDefaultTasks
          /\ initialized' = TRUE
          /\ cyc' = [cyc EXCEPT ![c].pc = "feat"]
  /\ rr' = IF dbConfigured THEN rr ELSE Kept(setupDefaultTasks)
  /\ UNCHANGED <<dbConfigured, conn, deploy, githubRepos, intervalMinutes, timers, parse, userSessions, chats, dev, inbox, lastLoad, parked, features, resp, urls, deps, currentTaskIndex, isRunning, intervalId>>

\* what follows a loadTasksFromDatabase that left the queue q
AfterLoad(c, q) ==
  /\ taskQueue' = q
  /\ CASE cyc[c].ret = "init" ->
            /\ initialized' = TRUE
            /\ cyc' = [cyc EXCEPT ![c].pc = "feat", ![c].ret = "none"]
            /\ rr' = Kept(q)
            /\ UNCHANGED currentTaskIndex
       [] cyc[c].ret = "cycle" ->
            LET r == getNextTask(q, currentTaskIndex) IN
            /\ currentTaskIndex' = r.idx
            /\ rr' = Recorded(q, currentTaskIndex, r.task)
            /\ initialized' = initialized
            /\ IF r.task = NoTask
               THEN cyc' = [cyc EXCEPT ![c].pc = "load", ![c].ret = "reload",
                                       ![c].found = Len(q)]
               ELSE cyc' = [cyc EXCEPT ![c].pc = "sent", ![c].ret = "none",
                                       ![c].found = Len(q), ![c].task = r.task,
                                       ![c].sent = @ + 1]
       [] cyc[c].ret = "reload" ->
            /\ cyc' = [cyc EXCEPT ![c] = IdleCycle]
            /\ rr' = Kept(q)
            /\ UNCHANGED <<currentTaskIndex, initialized>>

\* processRequestedFeatureRequests: the requested rows are read
CycRequested(c) ==
  /\ cyc[c].pc = "feat"
  /\ \E ok \in DbOutcomes :
       cyc' = IF ok /\ getRequestedFeatureRequests # <<>>
              THEN [cyc EXCEPT ![c].pc = "markPending", ![c].todo = getRequestedFeatureRequests]
              ELSE [cyc EXCEPT ![c].pc = "pend"]
  /\ UNCHANGED <<dbConfigured, conn, deploy, githubRepos, intervalMinutes, timers, parse, userSessions, chats, dev, inbox, lastLoad, parked, features, resp, urls, deps, taskQueue, currentTaskIndex,
                 initialized, isRunning, intervalId, rr>>

\* the loop goes on to the next feature of the rows it read
NextFeature(c) ==
  [cyc EXCEPT ![c].todo = Tail(@),
              ![c].parsed = "none",
              ![c].pc = IF Tail(cyc[c].todo) = <<>> THEN "pend" ELSE "markPending"]

\* an update of one row by id: .single() fails when no row matches
Updatable(f, ok) == ok /\ features[f].status # "absent"

\* what the loop does after a status write that was applied: the transition
\* is on record as not yet logged.  unlogged holds the transitions and round
\* trips of the feature at hand, or of the one just left, that have no
\* developer_agent_logs entry.
AfterStatus(c, status) ==
  CASE status = "pending" -> [cyc EXCEPT ![c].pc = "logSend", ![c].unlogged = {status}]
    [] status = "shipped" -> [cyc EXCEPT ![c].pc = "logReceive",
                                         ![c].unlogged = @ \cup {status}]
    [] OTHER -> [NextFeature(c) EXCEPT ![c].unlogged = @ \cup {status}]

\* the loop's catch is entered
Caught(c) ==
  [cyc EXCEPT ![c].pc = "catch",
              ![c].unlogged = IF cyc[c].pc = "markPending" THEN {} ELSE @]

\* a loop that goes on after a status write that threw
MarkStatusSwallowsThrow(c, at, status) ==
  /\ cyc[c].pc = at
  /\ \E ok \in DbOutcomes :
       LET f == Head(cyc[c].todo) IN
       /\ features' = IF Updatable(f, ok) THEN updateFeatureRequestStatus(f, status)
                      ELSE features
       /\ cyc' = AfterStatus(c, status)
  /\ UNCHANGED <<dbConfigured, conn, deploy, githubRepos, intervalMinutes, timers, parse, userSessions, chats, dev, inbox, lastLoad, parked, resp, urls, deps, taskQueue, currentTaskIndex,
                 initialized, isRunning, intervalId, rr>>

\* a status write of the loop resolves: written, or thrown into the loop's catch
MarkStatus(c, at, status) ==
  /\ cyc[c].pc = at
  /\ \E ok \in DbOutcomes :
       LET f == Head(cyc[c].todo) IN
       IF Updatable(f, ok)
       THEN /\ features' = updateFeatureRequestStatus(f, status)
            /\ cyc' = AfterStatus(c, status)
       ELSE /\ features' = features
            /\ cyc' = Caught(c)
  /\ UNCHANGED <<dbConfigured, conn, deploy, githubRepos, intervalMinutes, timers, parse, userSessions, chats, dev, inbox, lastLoad, parked, resp, urls, deps, taskQueue, currentTaskIndex,
                 initialized, isRunning, intervalId, rr>>

CycMarkPending(c) == MarkStatus(c, "markPending", "pending")
CycMarkShipped(c) == MarkStatus(c, "markShipped", "shipped")
CycMarkFailed(c) == MarkStatus(c, "markFailed", "failed")

\* the awaits of logDeveloperAgentInteraction and what each entry is about
LogSteps == {"logSend", "logReceive", "logError"}

Accompanies(pc) ==
  CASE pc = "logSend" -> {"pending"}
    [] pc = "logReceive" -> {"shipped", "reply"}
    [] pc = "logError" -> {"failed", "reply"}

\* a loop into whose catch a log write that failed would throw
AfterLogThrows(c, logged) ==
  IF ~logged THEN Caught(c)
  ELSE LET d == IF cyc[c].pc = "logSend" THEN [cyc EXCEPT ![c].pc = "implement"]
                ELSE NextFeature(c)
       IN [d EXCEPT ![c].unlogged = @ \ Accompanies(cyc[c].pc)]

\* logDeveloperAgentInteraction returned, the entry or null: the loop goes on
\* either way
AfterLog(c, logged) ==
  LET d == IF cyc[c].pc = "logSend" THEN [cyc EXCEPT ![c].pc = "implement"]
           ELSE NextFeature(c)
  IN [d EXCEPT ![c].unlogged = IF logged THEN @ \ Accompanies(cyc[c].pc) ELSE @]

\* logDeveloperAgentInteraction resolves: the insert was applied or it failed
CycLog(c) ==
  /\ cyc[c].pc \in LogSteps
  /\ \E logged \in DbOutcomes : cyc' = AfterLog(c, logged)
  /\ UNCHANGED <<dbConfigured, conn, deploy, githubRepos, intervalMinutes, timers, parse, userSessions, chats, dev, inbox, lastLoad, parked, features, resp, urls, deps, taskQueue,
                 currentTaskIndex, initialized, isRunning, intervalId, rr>>

\* the content of a developer-agent response, by what the parser looks for
Contents == [check : BOOLEAN, complete : BOOLEAN, cross : BOOLEAN,
             failedText : BOOLEAN, pr : BOOLEAN]

parseImplementationResponse(content) ==
  [success |-> content.check /\ content.complete,
   error |-> content.cross /\ content.failedText,
   pullRequestUrl |-> content.pr]

\* the branch the loop takes on a parsed response
Branch(parsedResult) ==
  IF parsedResult.success THEN "complete"
  ELSE IF parsedResult.error THEN "failed" ELSE "other"

\* what implementFeature and parseImplementationResponse make of the developer
\* agent: a reply with the completion marker, with the failure marker, with
\* neither, or a rejection (no repository, no connection, timeout)
Replies(f) ==
  IF features[f].github_repo
  THEN {Branch(parseImplementationResponse(content)) : content \in Contents}
         \cup {"throw"}
  ELSE {"throw"}

\* a client that sends a feature whether or not it names a repository
EmitsWithoutRepo(f) == BOOLEAN

\* implementFeature emits the request, or throws before it does: connect()
\* rejected, or the feature has no github_repo
Emits(f) == IF features[f].github_repo THEN BOOLEAN ELSE {FALSE}

CycImplement(c) ==
  /\ cyc[c].pc = "implement"
  /\ \E emitted \in Emits(Head(cyc[c].todo)) :
       cyc' = IF emitted THEN [cyc EXCEPT ![c].pc = "reply"] ELSE Caught(c)
  /\ UNCHANGED <<dbConfigured, conn, deploy, githubRepos, intervalMinutes, timers, parse, userSessions, chats, dev, inbox, lastLoad, parked, features, resp, urls, deps, taskQueue,
                 currentTaskIndex, initialized, isRunning, intervalId, rr>>

\* the promise of implementFeature settled with r and the reply is parsed
Received(c, r) ==
  LET d == CASE r = "complete" -> [cyc EXCEPT ![c].pc = "markShipped", ![c].parsed = r]
             [] r = "failed" -> [cyc EXCEPT ![c].pc = "markFailed", ![c].parsed = r]
             [] r = "other" -> NextFeature(c)
             [] r = "throw" -> Caught(c)
  IN /\ cyc[c].pc = "reply"
     /\ cyc' = [d EXCEPT ![c].unlogged = @ \cup {"reply"}]
     /\ parked' = IF r = "other" THEN parked \cup {Head(cyc[c].todo)} ELSE parked
     /\ UNCHANGED <<dbConfigured, conn, deploy, githubRepos, intervalMinutes, timers, parse, userSessions, chats, dev, inbox, lastLoad, features, resp, urls, deps, taskQueue,
                    currentTaskIndex, initialized, isRunning, intervalId, rr>>

CycReply(c) ==
  /\ cyc[c].pc = "reply"
  /\ \E r \in Replies(Head(cyc[c].todo)) : Received(c, r)

\* the loop's catch writes failed; a throw of that write ends the loop
CycCatch(c) ==
  /\ cyc[c].pc = "catch"
  /\ \E ok \in DbOutcomes :
       LET f == Head(cyc[c].todo) IN
       IF Updatable(f, ok)
       THEN /\ features' = updateFeatureRequestStatus(f, "failed")
            /\ cyc' = [cyc EXCEPT ![c].pc = "logError", ![c].unlogged = @ \cup {"failed"}]
       ELSE /\ features' = features
            /\ cyc' = [cyc EXCEPT ![c].pc = "pend", ![c].todo = <<>>,
                                   ![c].parsed = "none"]
  /\ UNCHANGED <<dbConfigured, conn, deploy, githubRepos, intervalMinutes, timers, parse, userSessions, chats, dev, inbox, lastLoad, parked, resp, urls, deps, taskQueue, currentTaskIndex,
                 initialized, isRunning, intervalId, rr>>

\* checkPendingFeatureRequests
CycCheckPending(c) ==
  /\ cyc[c].pc = "pend"
  /\ cyc' = [cyc EXCEPT ![c].pc = "load", ![c].ret = "cycle", ![c].unlogged = {}]
  /\ UNCHANGED <<dbConfigured, conn, deploy, githubRepos, intervalMinutes, timers, parse, userSessions, chats, dev, inbox, lastLoad, parked, features, resp, urls, deps, taskQueue, currentTaskIndex, initialized,
                 isRunning, intervalId, rr>>

\* loadTasksFromDatabase.  Its two queries are one step: the queue is assigned
\* only after both answered, and every pair of a url answer and a deployment
\* answer is an answer of one moment of a database whose rows change freely.
CycLoad(c) ==
  /\ cyc[c].pc = "load"
  /\ \E ok \in DbOutcomes :
       AfterLoad(c, IF ok THEN loadTasksFromDatabase(getUrlsToCheck, getDeploymentsToRun)
                    ELSE taskQueue)
  /\ UNCHANGED <<dbConfigured, conn, deploy, githubRepos, intervalMinutes, timers, parse, userSessions, chats, dev, inbox, lastLoad, parked, features, resp, urls, deps, isRunning, intervalId>>

\* sendToAgent resolves: the chat agent answered, or the request failed
CycResponse(c) ==
  /\ cyc[c].pc = "sent"
  /\ \E success \in BOOLEAN :
       cyc' = [cyc EXCEPT ![c].pc = "update",
                          ![c].chat = IF success THEN "ok" ELSE "failed"]
  /\ UNCHANGED <<dbConfigured, conn, deploy, githubRepos, intervalMinutes, timers, parse, userSessions, chats, dev, inbox, lastLoad, parked, features, resp, urls, deps, taskQueue, currentTaskIndex, initialized,
                 isRunning, intervalId, rr>>

\* a stamp that also retires the row
StampRetires(u) == [urls EXCEPT ![u].checked = TRUE, ![u].status = "inactive"]

updateUrlCheckStatus(u) == [urls EXCEPT ![u].checked = TRUE]

updateDeploymentRun(d, success) ==
  [deps EXCEPT ![d].run_count = @ + 1,
               ![d].due = IF success THEN FALSE ELSE @,
               ![d].error_count = IF success THEN @ ELSE @ + 1,
               ![d].last_error = IF success THEN @ ELSE "error"]

\* updateDatabaseAfterExecution: the write is applied, or it throws and the
\* throw is logged; then the cycle returns
updateDatabaseAfterExecution(c, written) ==
  LET t == cyc[c].task IN
  /\ cyc[c].pc = "update"
  /\ (t.type = "deployment_monitoring" /\ written) => deps[t.id].run_count < MaxRuns
  /\ urls' = IF t.type = "url_analysis" /\ written THEN updateUrlCheckStatus(t.id) ELSE urls
  /\ deps' = IF t.type = "deployment_monitoring" /\ written
             THEN updateDeploymentRun(t.id, cyc[c].chat = "ok") ELSE deps
  /\ cyc' = [cyc EXCEPT ![c] = IdleCycle]
  /\ UNCHANGED <<dbConfigured, conn, deploy, githubRepos, intervalMinutes, timers, parse, userSessions, chats, dev, inbox, lastLoad, parked, features, resp, taskQueue, currentTaskIndex, initialized, isRunning,
                 intervalId, rr>>

CycUpdate(c) == \E written \in DbOutcomes : updateDatabaseAfterExecution(c, written)

\* the steps of the feature loop; none is enabled while no row is requested
LoopStep(c) ==
  \/ CycMarkPending(c)
  \/ CycLog(c)
  \/ CycImplement(c)
  \/ CycReply(c)
  \/ CycMarkShipped(c)
  \/ CycMarkFailed(c)
  \/ CycCatch(c)

CycStep(c) ==
  \/ CycInitialize(c)
  \/ CycRequested(c)
  \/ CycCheckPending(c)
  \/ CycLoad(c)
  \/ CycResponse(c)
  \/ CycUpdate(c)

\* ------------------------------------------------------------------ the rows' other writers

addMonitoredUrl(u) ==
  /\ dbConfigured
  /\ urls[u].status = "absent"
  /\ urls' = [urls EXCEPT ![u] = [status |-> "active", checked |-> FALSE]]
  /\ UNCHANGED <<dbConfigured, conn, deploy, githubRepos, intervalMinutes, timers, parse, userSessions, chats, dev, inbox, lastLoad, parked, features, resp, deps, taskQueue, currentTaskIndex, initialized,
                 isRunning, intervalId, cyc, rr>>

\* a row's status column is edited outside the scheduler
SetUrlStatus(u) ==
  /\ dbConfigured
  /\ urls[u].status # "absent"
  /\ urls' = [urls EXCEPT ![u].status = IF @ = "active" THEN "inactive" ELSE "active"]
  /\ UNCHANGED <<dbConfigured, conn, deploy, githubRepos, intervalMinutes, timers, parse, userSessions, chats, dev, inbox, lastLoad, parked, features, resp, deps, taskQueue, currentTaskIndex, initialized,
                 isRunning, intervalId, cyc, rr>>

createDeployment(d) ==
  /\ dbConfigured
  /\ deps[d].status = "absent"
  /\ \E u \in {0} \cup {x \in UrlIds : urls[x].status # "absent"} :
       deps' = [deps EXCEPT ![d] = [NoDepRow EXCEPT !.status = "active", !.url = u]]
  /\ UNCHANGED <<dbConfigured, conn, deploy, githubRepos, intervalMinutes, timers, parse, userSessions, chats, dev, inbox, lastLoad, parked, features, resp, urls, taskQueue, currentTaskIndex, initialized,
                 isRunning, intervalId, cyc, rr>>

\* next_run_at passes
DeploymentDue(d) ==
  /\ deps[d].status = "active"
  /\ ~deps[d].due
  /\ deps' = [deps EXCEPT ![d].due = TRUE]
  /\ UNCHANGED <<dbConfigured, conn, deploy, githubRepos, intervalMinutes, timers, parse, userSessions, chats, dev, inbox, lastLoad, parked, features, resp, urls, taskQueue, currentTaskIndex, initialized,
                 isRunning, intervalId, cyc, rr>>

Next ==
  \/ start
  \/ stop
  \/ Tick
  \/ Trigger
  \/ \E c \in Slots : CycStep(c)
  \/ \E u \in UrlIds : addMonitoredUrl(u)
  \/ \E u \in UrlIds : SetUrlStatus(u)

Spec == Init /\ [][Next]_vars

\* the scheduler over one monitored url and the deployments joined to it
DepNext ==
  \/ start
  \/ stop
  \/ Tick
  \/ Trigger
  \/ \E c \in Slots : CycStep(c)
  \/ \E d \in DepIds : createDeployment(d)
  \/ \E d \in DepIds : DeploymentDue(d)

DepSpec == Init /\ [][DepNext]_vars

\* ------------------------------------------------------------------ writers of feature_requests

Answer(op, code, n, a) == [op |-> op, code |-> code, feature_name |-> n, target_account |-> a]

\* POST /api/features
PostFeature(n, a, d) ==
  /\ dbConfigured
  /\ \E ok \in BOOLEAN :
       LET name == LowerTrim(n) IN
       IF ~ok THEN /\ features' = features
                   /\ resp' = Answer("POST", "error", name, a)
       ELSE IF UniqueViolation(name, a)
            THEN /\ features' = features
                 /\ resp' = Answer("POST", "duplicate", name, a)
            ELSE /\ FreeIds # {}
                 /\ features' = Inserted(name, a, d, FALSE)
                 /\ resp' = Answer("POST", "created", name, a)
  /\ UNCHANGED <<dbConfigured, conn, deploy, githubRepos, intervalMinutes, timers, parse, userSessions, chats, dev, inbox, lastLoad, parked, urls, deps, taskQueue, currentTaskIndex, initialized,
                 isRunning, intervalId, cyc, rr>>

\* feature_request_tracker: _call saves one feature
TrackFeature(n, a, d) ==
  /\ dbConfigured
  /\ \E ok \in BOOLEAN :
       LET name == LowerTrim(n) IN
       IF ~ok THEN /\ features' = features
                   /\ resp' = Answer("tool", "error", name, a)
       ELSE /\ UniqueViolation(name, a) \/ FreeIds # {}
            /\ features' = Upserted(name, a, d)
            /\ resp' = Answer("tool", "saved", name, a)
  /\ UNCHANGED <<dbConfigured, conn, deploy, githubRepos, intervalMinutes, timers, parse, userSessions, chats, dev, inbox, lastLoad, parked, urls, deps, taskQueue, currentTaskIndex, initialized,
                 isRunning, intervalId, cyc, rr>>

createFeatureRequest(n, a, d, repo) ==
  /\ dbConfigured
  /\ \E ok \in BOOLEAN :
       IF ~ok \/ UniqueViolation(n, a)
       THEN /\ features' = features
            /\ resp' = Answer("create", "error", n, a)
       ELSE /\ FreeIds # {}
            /\ features' = Inserted(n, a, d, repo)
            /\ resp' = Answer("create", "created", n, a)
  /\ UNCHANGED <<dbConfigured, conn, deploy, githubRepos, intervalMinutes, timers, parse, userSessions, chats, dev, inbox, lastLoad, parked, urls, deps, taskQueue, currentTaskIndex, initialized,
                 isRunning, intervalId, cyc, rr>>

\* PUT /api/features/:id/status
PutStatus(f, status) ==
  /\ dbConfigured
  /\ \E ok \in BOOLEAN :
       IF ~ok THEN /\ features' = features
                   /\ resp' = Answer("PUT", "error", "", "")
       ELSE IF features[f].status = "absent"
            THEN /\ features' = features
                 /\ resp' = Answer("PUT", "notfound", "", "")
            ELSE /\ features' = [features EXCEPT ![f].status = status]
                 /\ resp' = Answer("PUT", "updated", "", "")
  /\ parked' = IF features'[f].status # features[f].status THEN parked \ {f} ELSE parked
  /\ UNCHANGED <<dbConfigured, conn, deploy, githubRepos, intervalMinutes, timers, parse, userSessions, chats, dev, inbox, lastLoad, urls, deps, taskQueue, currentTaskIndex, initialized,
                 isRunning, intervalId, cyc, rr>>

\* the table and the requests that write it
TableInit == Init /\ dbConfigured

TableNext ==
  \/ \E n \in Names, a \in Accounts, d \in Descriptions : PostFeature(n, a, d)
  \/ \E n \in Names, a \in Accounts, d \in Descriptions : TrackFeature(n, a, d)
  \/ \E n \in Names, a \in Accounts, d \in Descriptions, repo \in BOOLEAN :
        createFeatureRequest(n, a, d, repo)
  \/ \E f \in FeatureIds, status \in PutStatuses : PutStatus(f, status)

TableSpec == TableInit /\ [][TableNext]_vars

\* the scheduler over one requested feature and one monitored url
FeatInit ==
  /\ conn = NoConnection
  /\ deploy = NoDeploy /\ githubRepos = 0
  /\ intervalMinutes = DefaultInterval /\ timers = <<>>
  /\ parse = NoParse
  /\ userSessions = NoSessions /\ chats = NoChats
  /\ dev = NoRequests /\ inbox = {}
  /\ lastLoad = NoLoad
  /\ parked = {}
  /\ dbConfigured = TRUE
  /\ urls = [u \in UrlIds |-> IF u = 1 THEN [status |-> "active", checked |-> FALSE]
                               ELSE NoUrlRow]
  /\ deps = [d \in DepIds |-> NoDepRow]
  /\ taskQueue = <<>>
  /\ currentTaskIndex = 0
  /\ initialized = FALSE
  /\ isRunning = FALSE
  /\ intervalId = "null"
  /\ cyc = [c \in Slots |-> IdleCycle]
  /\ rr = NoCalls
  /\ \E repo \in BOOLEAN :
       features = [f \in FeatureIds |->
                     IF f = 1 THEN NewFeature("dark mode", "acme", "d1", repo) ELSE NoFeature]
  /\ resp = NoResponse

FeatNext ==
  \/ start
  \/ Tick
  \/ Trigger
  \/ \E c \in Slots : CycStep(c)
  \/ \E c \in Slots : LoopStep(c)
  \/ \E status \in PutStatuses : PutStatus(1, status)

FeatSpec == FeatInit /\ [][FeatNext]_vars

\* ------------------------------------------------------------------ reloading the queue

\* the rows without what the clock alone decides
WithoutClock(ds) == [d \in DepIds |-> [ds[d] EXCEPT !.due = FALSE]]

SameRows(l) == l.done /\ l.urls = urls /\ WithoutClock(l.deps) = WithoutClock(deps)

\* POST /api/orchestration/refresh: loadTasksFromDatabase outside a cycle; a
\* failed query leaves the queue as it was
Refresh ==
  /\ \E ok \in DbOutcomes :
       IF ok
       THEN /\ taskQueue' = loadTasksFromDatabase(getUrlsToCheck, getDeploymentsToRun)
            /\ lastLoad' = [done |-> TRUE, again |-> SameRows(lastLoad),
                            urls |-> urls, deps |-> deps]
       ELSE UNCHANGED <<taskQueue, lastLoad>>
  /\ rr' = Kept(taskQueue')
  /\ UNCHANGED <<dbConfigured, conn, deploy, githubRepos, intervalMinutes, timers, parse, userSessions, chats, dev, inbox, features, resp, urls, deps, currentTaskIndex, initialized,
                 isRunning, intervalId, cyc, parked>>

LoadNext ==
  \/ Refresh
  \/ \E u \in UrlIds : addMonitoredUrl(u)
  \/ \E u \in UrlIds : SetUrlStatus(u)
  \/ \E d \in DepIds : createDeployment(d)
  \/ \E d \in DepIds : DeploymentDue(d)

LoadSpec == Init /\ [][LoadNext]_vars

\* C11 as stated: while the rows are those the last answered load read, whatever
\* the clock, a further load leaves the queue with the same tasks in the same
\* order.
C11_ReloadSameRows ==
  [][SameRows(lastLoad) => taskQueue' = taskQueue]_vars

\* C11: while the rows are those the last answered load read and no next_run_at
\* has passed since, a further load leaves the queue with the same length and
\* the same tasks in the same order.
C11_ReloadSameRowsSameClock ==
  [][(SameRows(lastLoad) /\ lastLoad.deps = deps) => taskQueue' = taskQueue]_vars

\* a second load has read the rows of the first, a url and a due deployment
C11_ReloadedTwice ==
  /\ lastLoad.again /\ lastLoad.deps = deps /\ lastLoad.urls = urls
  /\ \E i, j \in 1..Len(taskQueue) :
       taskQueue[i].type = "url_analysis" /\ taskQueue[j].type = "deployment_monitoring"

\* ------------------------------------------------------------------ requests to the developer agent

\* implementFeature with a fresh messageId: the timeout is armed, the callback
\* stored and the message emitted
implementFeature(id) ==
  /\ dev.promise[id] = "none"
  /\ dev' = [dev EXCEPT !.promise[id] = "pending", !.timers = @ \cup {id},
                        !.callbacks = @ \cup {id}]
  /\ UNCHANGED <<dbConfigured, conn, deploy, githubRepos, intervalMinutes, timers, parse, userSessions, chats, inbox, lastLoad, parked, features, resp, urls, deps, taskQueue,
                 currentTaskIndex, initialized, isRunning, intervalId, cyc, rr>>

\* the server sends a message on the socket
Arrive(m) ==
  /\ m \notin inbox
  /\ inbox' = inbox \cup {m}
  /\ UNCHANGED <<dbConfigured, conn, deploy, githubRepos, intervalMinutes, timers, parse, userSessions, chats, dev, lastLoad, parked, features, resp, urls, deps, taskQueue,
                 currentTaskIndex, initialized, isRunning, intervalId, cyc, rr>>

\* socket.on('message'): handleAgentResponse
handleAgentResponse(m) ==
  /\ m \in inbox
  /\ inbox' = inbox \ {m}
  /\ dev' = IF m # 0 /\ m \in dev.callbacks THEN Delivered(dev, m) ELSE dev
  /\ UNCHANGED <<dbConfigured, conn, deploy, githubRepos, intervalMinutes, timers, parse, userSessions, chats, lastLoad, parked, features, resp, urls, deps, taskQueue,
                 currentTaskIndex, initialized, isRunning, intervalId, cyc, rr>>

\* the timeout of a request fires
RequestTimeout(id) ==
  /\ id \in dev.timers
  /\ dev' = TimedOut(dev, id)
  /\ UNCHANGED <<dbConfigured, conn, deploy, githubRepos, intervalMinutes, timers, parse, userSessions, chats, inbox, lastLoad, parked, features, resp, urls, deps, taskQueue,
                 currentTaskIndex, initialized, isRunning, intervalId, cyc, rr>>

AgentNext ==
  \/ \E id \in MsgIds : implementFeature(id)
  \/ \E m \in InReplyTo : Arrive(m)
  \/ \E m \in InReplyTo : handleAgentResponse(m)
  \/ \E id \in MsgIds : RequestTimeout(id)

AgentSpec == Init /\ [][AgentNext]_vars

\* C14: resolve or reject is called at most once on the promise of a request,
\* by the first message whose inReplyTo is its messageId or by its timeout and
\* never by both; a request has its entry in messageCallbacks and its timeout
\* armed exactly while it is unsettled; a message whose inReplyTo is missing or
\* has no entry changes nothing, and a message changes no request but the one
\* its inReplyTo names.
C14_SettledExactlyOnce ==
  /\ [](\A id \in MsgIds :
          /\ dev.settles[id] <= 1
          /\ dev.promise[id] = "pending" <=> id \in dev.callbacks
          /\ id \in dev.callbacks <=> id \in dev.timers
          /\ dev.promise[id] = "pending" => dev.settles[id] = 0
          /\ dev.promise[id] \in {"resolved", "rejected"} => dev.settles[id] = 1)
  /\ [][\A m \in inbox \ inbox' :
          /\ (m = 0 \/ m \notin dev.callbacks) => dev' = dev
          /\ \A id \in MsgIds \ {m} :
               /\ dev'.promise[id] = dev.promise[id]
               /\ dev'.settles[id] = dev.settles[id]
          /\ (m \in MsgIds /\ m \in dev.callbacks) => dev'.promise[m] = "resolved"]_vars

\* one request was resolved by its reply, another rejected by its timeout, and
\* a second message for the first is on its way in
C14_ResolvedAndRejected ==
  \E a, b \in MsgIds :
    /\ dev.promise[a] = "resolved" /\ dev.promise[b] = "rejected"
    /\ a \in inbox /\ b \in inbox

\* ------------------------------------------------------------------ properties of the scheduler

\* C1: on a queue of N >= 1 tasks that is not changed between the calls, the
\* i-th consecutive getNextTask call returns the queue element i places after
\* the index the first call found, counted cyclically, and leaves the index
\* one place further, so N calls return every element once in queue order and
\* the call after the last element returns the element at index 0.
C1_RoundRobinVisitsEveryTask ==
  \A i \in 1..Len(rr.calls) :
    /\ rr.calls[i] = rr.q[((rr.start + i - 1) % Len(rr.q)) + 1]
    /\ i = Len(rr.calls) => currentTaskIndex = (rr.start + i) % Len(rr.q)

\* C2: a cycle that found at least one task in the queue it reloaded has sent
\* exactly one task message to the chat agent.
C2_OneMessagePerCycle ==
  \A c \in Slots : cyc[c].found >= 1 => cyc[c].sent = 1

\* cycle c reads the queue it reloaded and finds it empty
FindsEmptyQueue(c) ==
  /\ cyc[c].pc = "load" /\ cyc[c].ret = "cycle"
  /\ cyc'[c] # cyc[c]
  /\ taskQueue' = <<>>

\* cycle c, having found its queue empty, reloads once more and returns
ReturnsFromEmptyQueue(c) ==
  /\ cyc[c].pc = "load" /\ cyc[c].ret = "reload" /\ cyc[c].found = 0
  /\ cyc'[c] # cyc[c]

\* C10: a cycle whose reloaded queue is empty sends nothing to the chat agent,
\* writes no monitored_urls or orchestration_deployments row, leaves
\* currentTaskIndex as it was and returns without throwing.
C10_EmptyQueueCycleIsNoOp ==
  [][\A c \in Slots :
       /\ FindsEmptyQueue(c) =>
            /\ cyc'[c].sent = 0 /\ cyc'[c].pc = "load" /\ cyc'[c].ret = "reload"
            /\ urls' = urls /\ deps' = deps
            /\ currentTaskIndex' = currentTaskIndex
       /\ ReturnsFromEmptyQueue(c) =>
            /\ cyc'[c] = IdleCycle
            /\ urls' = urls /\ deps' = deps
            /\ currentTaskIndex' = currentTaskIndex]_vars

\* a cycle found its queue empty while the index stood past the first place
C10_EmptyQueueSeen ==
  \E c \in Slots :
    /\ cyc[c].pc = "load" /\ cyc[c].ret = "reload" /\ cyc[c].found = 0
    /\ currentTaskIndex > 0

\* C8: when the chat-agent call of a cycle failed, the cycle records a failed
\* deployment run for the task it dispatched (error_count one higher,
\* last_error set), returns without throwing, and leaves the timer armed and
\* isRunning as they were.
C8_ChatFailureRecorded ==
  [][\A c \in Slots :
       (cyc[c].pc = "update" /\ cyc[c].chat = "failed" /\ cyc'[c] # cyc[c]
          /\ cyc[c].task.type # "default") =>
         /\ cyc[c].task.type = "deployment_monitoring"
         /\ deps'[cyc[c].task.id].error_count = deps[cyc[c].task.id].error_count + 1
         /\ deps'[cyc[c].task.id].last_error = "error"
         /\ cyc'[c] = IdleCycle
         /\ isRunning' = isRunning /\ intervalId' = intervalId]_vars

\* ------------------------------------------------------------------ properties of feature_requests

\* C3: every feature_requests row has a status among requested, pending,
\* shipped, failed and rejected.
C3_StatusVocabulary ==
  \A f \in FeatureIds :
    features[f].status \in {"absent", "requested", "pending", "shipped", "failed", "rejected"}

\* C4: a step of an orchestration cycle changes the status of a feature request
\* only from requested to pending, from pending to shipped or from pending to
\* failed, however the cycles overlap.
C4_SchedulerTransitions ==
  [][\A f \in FeatureIds :
       (cyc' # cyc /\ features'[f].status # features[f].status) =>
         <<features[f].status, features'[f].status>> \in
           {<<"requested", "pending">>, <<"pending", "shipped">>, <<"pending", "failed">>}]_vars

\* C5: a write that changes a status to pending sets implementation_started_at,
\* one that changes it to shipped sets implementation_completed_at and one that
\* changes it to failed sets implementation_failed_at, in the same update.
C5_TransitionsStamped ==
  [][\A f \in FeatureIds :
       features'[f].status # features[f].status =>
         /\ features'[f].status = "pending" => features'[f].implementation_started_at
         /\ features'[f].status = "shipped" => features'[f].implementation_completed_at
         /\ features'[f].status = "failed" => features'[f].implementation_failed_at]_vars

\* C6: an insert through POST /api/features or through the tracker tool for a
\* (feature_name, target_account) pair that already has a row is answered as a
\* duplicate and leaves every row as it was.
C6_DuplicateInsertRejected ==
  [][(/\ <<features, resp>>' # <<features, resp>>
      /\ resp'.op \in {"POST", "tool"}
      /\ resp'.code # "error"
      /\ UniqueViolation(resp'.feature_name, resp'.target_account)) =>
       (resp'.code = "duplicate" /\ features' = features)]_vars

\* C7: no two feature_requests rows share a (feature_name, target_account) pair.
C7_PairUnique ==
  \A f, g \in FeatureIds :
    (f # g /\ features[f].status # "absent" /\ features[g].status # "absent") =>
      <<features[f].feature_name, features[f].target_account>> #
        <<features[g].feature_name, features[g].target_account>>

\* an insert was refused as a duplicate while the table holds two rows whose
\* names differ only in case
C7_DuplicateRefused ==
  /\ resp.code = "duplicate"
  /\ \E f, g \in FeatureIds :
       /\ features[f].status # "absent" /\ features[g].status # "absent"
       /\ features[f].feature_name # features[g].feature_name
       /\ LowerTrim(features[f].feature_name) = LowerTrim(features[g].feature_name)
       /\ features[f].target_account = features[g].target_account

\* ------------------------------------------------------------------ retries under fair ticking

\* a load whose two queries are answered
CycLoadAnswered(c) ==
  CycLoad(c) /\ taskQueue' = loadTasksFromDatabase(getUrlsToCheck, getDeploymentsToRun)

\* the timer is armed and stays armed, it fires again and again, every await of
\* a cycle resolves, and the database does not fail for ever
LiveNext ==
  \/ start
  \/ Tick
  \/ \E c \in Slots : CycStep(c)
  \/ \E u \in UrlIds : addMonitoredUrl(u)
  \/ \E u \in UrlIds : SetUrlStatus(u)

LiveSpec ==
  /\ Init
  /\ [][LiveNext]_vars
  /\ WF_vars(start)
  /\ WF_vars(Tick)
  /\ \A c \in Slots : WF_vars(CycStep(c))
  /\ \A c \in Slots : SF_vars(CycLoadAnswered(c))

FailedDispatch(t) ==
  \E c \in Slots : cyc[c].pc = "update" /\ cyc[c].task = t /\ cyc[c].chat = "failed"

Dispatched(t) == \E c \in Slots : cyc[c].pc = "sent" /\ cyc[c].task = t

\* C9: a cycle dispatches a task at most once, and a task whose dispatch failed
\* is dispatched again later unless its row stops being active.
C9_FailedTaskRetried ==
  /\ [](\A c \in Slots : cyc[c].sent <= 1)
  /\ \A u \in UrlIds :
       FailedDispatch(UrlTask(u)) ~> (Dispatched(UrlTask(u)) \/ urls[u].status # "active")

\* ------------------------------------------------------------------ properties of the feature loop

\* cycle c hands a request for the feature at hand to the developer agent
EmitsRequest(c) == cyc[c].pc = "implement" /\ cyc'[c].pc = "reply"

C13_ParkedStaysPending ==
  [][\A f \in parked :
       cyc' # cyc =>
         /\ features'[f].status = features[f].status
         /\ \A c \in Slots : ~(EmitsRequest(c) /\ Head(cyc[c].todo) = f)]_vars

\* C15: at most one executeOrchestrationCycle call is in flight at any time,
\* whether cycles are started by the timer, by start() or by POST /trigger.
C15_OneCycleInFlight ==
  Cardinality({c \in Slots : ~Free(c)}) <= 1

\* C16: when a cycle leaves a feature, every status write it applied to the
\* feature (pending, shipped, failed) and every round trip it made to the
\* developer agent has a developer_agent_logs entry written by that cycle.
C16_TransitionsLogged ==
  \A c \in Slots : cyc[c].pc \in {"markPending", "pend"} => cyc[c].unlogged = {}

\* one cycle, begun by start(), over two requested features
LoopInit ==
  /\ conn = NoConnection
  /\ deploy = NoDeploy /\ githubRepos = 0
  /\ intervalMinutes = DefaultInterval /\ timers = <<>>
  /\ parse = NoParse
  /\ userSessions = NoSessions /\ chats = NoChats
  /\ dev = NoRequests /\ inbox = {}
  /\ lastLoad = NoLoad
  /\ parked = {}
  /\ dbConfigured = TRUE
  /\ urls = [u \in UrlIds |-> IF u = 1 THEN [status |-> "active", checked |-> FALSE]
                               ELSE NoUrlRow]
  /\ deps = [d \in DepIds |-> NoDepRow]
  /\ taskQueue = <<>>
  /\ currentTaskIndex = 0
  /\ initialized = FALSE
  /\ isRunning = FALSE
  /\ intervalId = "null"
  /\ cyc = [c \in Slots |-> IdleCycle]
  /\ rr = NoCalls
  /\ \E repo \in [1..2 -> BOOLEAN] :
       features = [f \in FeatureIds |->
                     CASE f = 1 -> NewFeature("dark mode", "acme", "d1", repo[1])
                       [] f = 2 -> NewFeature("dark mode", "beta", "d2", repo[2])
                       [] OTHER -> NoFeature]
  /\ resp = NoResponse

LoopNext ==
  \/ start
  \/ \E c \in Slots : CycStep(c)
  \/ \E c \in Slots : LoopStep(c)

LoopSpec == LoopInit /\ [][LoopNext]_vars

\* C17: whether the insert of logDeveloperAgentInteraction is applied or
\* fails, the await returns: no feature_requests row changes, after the
\* send_request entry the implementation request is made, and after the other
\* entries the loop goes on to the next feature it read.
C17_LogFailureSwallowed ==
  [][\A c \in Slots :
       (cyc[c].pc \in LogSteps /\ cyc'[c] # cyc[c]) =>
         /\ features' = features
         /\ cyc[c].pc = "logSend" =>
              cyc'[c].pc = "implement" /\ cyc'[c].todo = cyc[c].todo
         /\ cyc[c].pc # "logSend" =>
              /\ cyc'[c].todo = Tail(cyc[c].todo)
              /\ cyc'[c].pc = IF Tail(cyc[c].todo) = <<>> THEN "pend" ELSE "markPending"]_vars

\* the entry for a shipped feature was not written, and the cycle is at the
\* next feature
C17_LoopWentOn ==
  \E c \in Slots :
    /\ cyc[c].pc = "markPending" /\ cyc[c].todo = <<2>>
    /\ "shipped" \in cyc[c].unlogged
    /\ features[1].status = "shipped"

\* ------------------------------------------------------------------ chat sessions

\* POST /api/agent/chat up to its await: the session is looked up or created
\* and agent.processMessage is called
ChatArrives(s) ==
  /\ chats.arrived < MaxChats
  /\ Cardinality(chats.waiting) < MaxInFlight
  /\ userSessions' = [userSessions EXCEPT ![s].exists = TRUE]
  /\ chats' = [chats EXCEPT !.arrived = @ + 1,
                            !.waiting = @ \cup {[s |-> s, n |-> chats.arrived + 1]}]
  /\ UNCHANGED <<dbConfigured, conn, deploy, githubRepos, intervalMinutes, timers, parse, dev, inbox, lastLoad, parked, features, resp, urls, deps,
                 taskQueue, currentTaskIndex, initialized, isRunning, intervalId, cyc, rr>>

\* agent.processMessage resolves and the two entries are pushed and trimmed,
\* or it rejects and the error goes to next()
ChatAnswered(w) ==
  /\ w \in chats.waiting
  /\ \E ok \in BOOLEAN :
       IF ok
       THEN /\ userSessions' = [userSessions EXCEPT
                                  ![w.s].history = KeepLast(@ \o Entries(w.n))]
            /\ chats' = [chats EXCEPT !.waiting = @ \ {w},
                                      !.appended[w.s] = @ \o Entries(w.n)]
       ELSE /\ userSessions' = userSessions
            /\ chats' = [chats EXCEPT !.waiting = @ \ {w}]
  /\ UNCHANGED <<dbConfigured, conn, deploy, githubRepos, intervalMinutes, timers, parse, dev, inbox, lastLoad, parked, features, resp, urls, deps,
                 taskQueue, currentTaskIndex, initialized, isRunning, intervalId, cyc, rr>>

\* POST /api/agent/reset: 404 for a session that does not exist
Reset(s) ==
  /\ IF userSessions[s].exists
     THEN /\ userSessions' = [userSessions EXCEPT ![s].history = <<>>]
          /\ chats' = [chats EXCEPT !.appended[s] = <<>>]
     ELSE UNCHANGED <<userSessions, chats>>
  /\ UNCHANGED <<dbConfigured, conn, deploy, githubRepos, intervalMinutes, timers, parse, dev, inbox, lastLoad, parked, features, resp, urls, deps,
                 taskQueue, currentTaskIndex, initialized, isRunning, intervalId, cyc, rr>>

ChatNext ==
  \/ \E s \in SessionIds : ChatArrives(s)
  \/ \E w \in chats.waiting : ChatAnswered(w)
  \/ \E s \in SessionIds : Reset(s)

\* the sessions do not depend on the database
ChatInit == Init /\ dbConfigured

ChatSpec == ChatInit /\ [][ChatNext]_vars

\* C18: a session's history has at most 20 entries, they are the last 20 of
\* the entries appended since the session was created or reset (all of them
\* when there are fewer), in the order they were appended, every chat's user
\* entry is followed by its assistant entry, and a reset of an existing
\* session leaves its history empty.
C18_HistoryIsLastTwenty ==
  /\ [](\A s \in SessionIds :
          LET h == userSessions[s].history
              all == chats.appended[s]
          IN /\ Len(h) <= HistoryCap
             /\ Len(h) = IF Len(all) < HistoryCap THEN Len(all) ELSE HistoryCap
             /\ \A i \in 1..Len(h) : h[i] = all[Len(all) - Len(h) + i]
             /\ \A i \in 1..Len(h) :
                  i % 2 = 1 => /\ i < Len(h)
                               /\ h[i].role = "user" /\ h[i + 1].role = "assistant"
                               /\ h[i].n = h[i + 1].n)
  /\ [][\A s \in SessionIds :
          (userSessions[s].exists /\ chats'.appended[s] = <<>> /\ chats.appended[s] # <<>>) =>
            userSessions'[s].history = <<>>]_vars

\* a session that was trimmed: more was appended than the history holds, and
\* two chats were answered in the order opposite to their arrival
C18_HistoryTrimmed ==
  \E s \in SessionIds :
    /\ Len(chats.appended[s]) > HistoryCap
    /\ Len(userSessions[s].history) = HistoryCap
    /\ \E i \in 1..(HistoryCap - 2) :
         userSessions[s].history[i].n > userSessions[s].history[i + 2].n

\* ------------------------------------------------------------------ intent parsing

\* The example commands of getHelpResponse and of the chat test, each under
\* the intent of the section that lists it.  A command is cut into pieces so
\* that every occurrence of a keyword is a piece of its own.
Example(section, message) == [section |-> section, message |-> message]

Examples ==
  { Example("deploy", <<"deploy", " agent on ", "github",
                        ".com/user/repo and twitter.com/user/", "status", "/123">>),
    Example("deploy", <<"monitor", " ", "github", ".com/user/repo">>),
    Example("deploy", <<"add twitter.com/user/", "status", "/123 to ", "monitor", "ing">>),
    Example("status", <<"what's the ", "status", "?">>),
    Example("status", <<"s", "how", " me active ", "deploy", "ment", "s">>),
    Example("status", <<"how", " many URLs are being ", "monitor", "ed?">>),
    Example("feature_query", <<"s", "how", " me ", "feature", " ", "request",
                               "s for dark mode">>),
    Example("feature_query", <<"what ", "feature", "s are high priority?">>),
    Example("feature_query", <<"search for mobile ", "feature", "s">>),
    Example("config", <<"change check interval to 30 minutes">>),
    Example("config", <<"set priority to high">>),
    Example("help", <<"help">>),
    Example("deploy", <<"deploy", " agent on ", "github",
                        ".com/example/test-repo and https://x.com/meetnpay/", "status",
                        "/1937766635554976060">>),
    Example("status", <<"what's the ", "status", " of my ", "deploy", "ment", "s?">>) }

\* a chat message arrives
IntentInit ==
  /\ conn = NoConnection
  /\ deploy = NoDeploy /\ githubRepos = 0
  /\ intervalMinutes = DefaultInterval /\ timers = <<>>
  /\ parse \in {[NoParse EXCEPT !.message = m] :
                  m \in Messages \cup {e.message : e \in Examples}}
  /\ userSessions = NoSessions /\ chats = NoChats
  /\ dev = NoRequests /\ inbox = {}
  /\ lastLoad = NoLoad
  /\ parked = {}
  /\ dbConfigured = TRUE
  /\ urls = [u \in UrlIds |-> NoUrlRow]
  /\ deps = [d \in DepIds |-> NoDepRow]
  /\ taskQueue = <<>>
  /\ currentTaskIndex = 0
  /\ initialized = FALSE
  /\ isRunning = FALSE
  /\ intervalId = "null"
  /\ cyc = [c \in Slots |-> IdleCycle]
  /\ rr = NoCalls
  /\ features = [f \in FeatureIds |-> NoFeature]
  /\ resp = NoResponse

\* parseIntent: the fallback parser is applied to the message
parseIntent ==
  /\ ~parse.done
  /\ parse' = [parse EXCEPT !.done = TRUE, !.result = fallbackIntentParsing(parse.message)]
  /\ UNCHANGED <<dbConfigured, conn, deploy, githubRepos, intervalMinutes, timers, userSessions, chats, dev, inbox, lastLoad, parked, features,
                 resp, urls, deps, taskQueue, currentTaskIndex, initialized, isRunning,
                 intervalId, cyc, rr>>

IntentNext == parseIntent

IntentSpec == IntentInit /\ [][IntentNext]_vars

\* the intents in the order they are tried
IntentOrder == <<"deploy", "status", "feature_query", "config", "help">>

\* the keywords of the table
Keywords == {"deploy", "github", "monitor", "status", "deployment", "feature", "request",
             "config", "setting", "help", "how"}

\* the entry of an intent matches the lower-cased message
Matches(type, lower) ==
  CASE type = "deploy" -> \/ includes(lower, "deploy")
                          \/ includes(lower, "github") /\ includes(lower, "monitor")
    [] type = "status" -> includes(lower, "status") \/ includes(lower, "deployment")
    [] type = "feature_query" -> includes(lower, "feature") \/ includes(lower, "request")
    [] type = "config" -> includes(lower, "config") \/ includes(lower, "setting")
    [] type = "help" -> includes(lower, "help") \/ includes(lower, "how")

Hits(lower) == {i \in 1..Len(IntentOrder) : Matches(IntentOrder[i], lower)}

\* the result is that of the lower-cased message, and it is the first entry
\* that matches, with confidence 0.6
FirstMatchWins ==
  LET lower == toLowerCase(parse.message) IN
  /\ parse.result = fallbackIntentParsing(lower)
  /\ Hits(lower) # {} => /\ parse.result.type = IntentOrder[Min(Hits(lower))]
                         /\ parse.result.confidence = "0.6"
  /\ parse.result.type = "general" <=> parse.result.confidence = "0.4"

\* C19 as stated: the result depends on the lower-cased message only, it is the
\* first matching intent in the order deploy, status, feature_query, config,
\* help with confidence 0.6, and it is general with confidence 0.4 exactly
\* when no keyword of the table occurs in the message.
C19_GeneralIffNoKeyword ==
  parse.done =>
    /\ FirstMatchWins
    /\ parse.result.type = "general" <=>
         \A k \in Keywords : ~includes(toLowerCase(parse.message), k)

\* C19: the result depends on the lower-cased message only, it is the first
\* matching intent in the order deploy, status, feature_query, config, help
\* with confidence 0.6, and it is general with confidence 0.4 exactly when no
\* entry matches, where github and monitor match deploy only together.
C19_GeneralIffNoMatch ==
  parse.done =>
    /\ FirstMatchWins
    /\ parse.result.type = "general" <=> Hits(toLowerCase(parse.message)) = {}

\* a message typed with capitals that matches deploy and a later entry too
C19_CapitalsAndTwoMatches ==
  /\ parse.done
  /\ parse.message # toLowerCase(parse.message)
  /\ parse.result.type = "deploy"
  /\ Cardinality(Hits(toLowerCase(parse.message))) >= 2
  /\ ~includes(parse.message, "deploy")

\* C24: every example command of the help text and of the chat test is
\* classified as the intent of the section that lists it.
C24_ExamplesUnderTheirSection ==
  parse.done =>
    \A e \in Examples : parse.message = e.message => parse.result.type = e.section

(***************************************************************************)
(* start, stop and updateConfig                                            *)
(***************************************************************************)

\* the intervalMinutes of a POST /config body: absent, or a number
ConfigInputs ==
  {[given |-> FALSE, value |-> 0]}
    \cup {[given |-> TRUE, value |-> v] : v \in (0 - 1)..MaxInterval}

\* config.intervalMinutes && config.intervalMinutes > 0
Positive(config) == config.given /\ config.value # 0 /\ config.value > 0

\* updateConfig(config): a positive intervalMinutes is taken, and a running
\* agent is stopped and started again, which begins a cycle
updateConfig(config) ==
  IF Positive(config)
  THEN /\ intervalMinutes' = config.value
       /\ IF isRunning
          THEN /\ HasFreeSlot
               /\ StartCycle(FreeSlot)
               /\ timers' = setInterval(clearInterval(timers), config.value)
               /\ intervalId' = "timer"
               /\ isRunning' = TRUE
          ELSE UNCHANGED <<timers, intervalId, isRunning, cyc>>
       /\ UNCHANGED <<dbConfigured, conn, deploy, githubRepos, parse, userSessions, chats, dev, inbox, lastLoad, parked, features, resp, urls, deps, taskQueue, currentTaskIndex, initialized, rr>>
  ELSE UNCHANGED vars

\* start() on a running agent returns at once
startWhileRunning == isRunning /\ UNCHANGED vars

\* stop() on a stopped agent returns at once
stopWhileStopped == ~isRunning /\ UNCHANGED vars

TimerNext ==
  \/ start
  \/ startWhileRunning
  \/ stop
  \/ stopWhileStopped
  \/ \E config \in ConfigInputs : updateConfig(config)
  \/ Tick
  \/ \E c \in Slots : CycStep(c)

TimerSpec == Init /\ [][TimerNext]_vars

\* what updateConfig(config) must leave behind
ConfigTaken(config) ==
  IF Positive(config)
  THEN /\ intervalMinutes' = config.value
       /\ isRunning' = isRunning
       /\ isRunning => timers' = <<config.value>>
       /\ ~isRunning => timers' = <<>>
  ELSE /\ intervalMinutes' = intervalMinutes
       /\ timers' = timers
       /\ isRunning' = isRunning

\* C20: after any sequence of start, stop and updateConfig at most one
\* interval is armed, and isRunning holds exactly when one is; a start on a
\* running agent arms no second one; updateConfig with a positive
\* intervalMinutes leaves a running agent running on the new interval and a
\* stopped agent stopped, and with a missing or non-positive intervalMinutes
\* it leaves the interval as it was.
C20_OneTimerWhileRunning ==
  /\ [](/\ Len(timers) <= 1
        /\ isRunning <=> timers # <<>>
        /\ isRunning <=> intervalId = "timer")
  /\ [][startWhileRunning => timers' = timers]_vars
  /\ [][\A config \in ConfigInputs : updateConfig(config) => ConfigTaken(config)]_vars

\* a running agent whose one interval has a period other than the default,
\* with the cycle of the first start and the cycle of the restart in flight
C20_RestartedOnNewInterval ==
  /\ isRunning
  /\ intervalMinutes # DefaultInterval
  /\ timers = <<intervalMinutes>>
  /\ \A c \in Slots : ~Free(c)

\* ------------------------------------------------------------------ what a load leaves in the queue

ActiveUrls == {u \in UrlIds : urls[u].status = "active"}

\* the active deployments whose next_run_at is null or past and whose
\* monitored_url_id names a row
DueJoined ==
  {d \in DepIds : /\ deps[d].status = "active" /\ deps[d].due
                  /\ \E u \in UrlIds : deps[d].url = u /\ urls[u].status # "absent"}

\* C21: after a successful loadTasksFromDatabase, while the rows are those it
\* read, the queue holds exactly one url_analysis task per active monitored
\* url, followed by one deployment_monitoring task per active deployment that
\* is due and has a joined monitored url, each group in query order, and
\* nothing else.
C21_QueueIsLoadResult ==
  (lastLoad.done /\ lastLoad.urls = urls /\ lastLoad.deps = deps) =>
    /\ Len(taskQueue) = Cardinality(ActiveUrls) + Cardinality(DueJoined)
    /\ \A i \in 1..Len(taskQueue) :
         IF i <= Cardinality(ActiveUrls)
         THEN taskQueue[i].type = "url_analysis" /\ taskQueue[i].id \in ActiveUrls
         ELSE taskQueue[i].type = "deployment_monitoring" /\ taskQueue[i].id \in DueJoined
    /\ \A i, j \in 1..Len(taskQueue) :
         (i < j /\ taskQueue[i].type = taskQueue[j].type) => taskQueue[i].id < taskQueue[j].id

\* a load has replaced a queue by two url tasks and a deployment task
C21_LoadedUrlsThenDeployment ==
  /\ lastLoad.done /\ lastLoad.urls = urls /\ lastLoad.deps = deps
  /\ Len(taskQueue) = NumUrls + 1
  /\ taskQueue[NumUrls + 1].type = "deployment_monitoring"

\* ------------------------------------------------------------------ stamping a checked url

\* cycle c returns from updateDatabaseAfterExecution for a url_analysis task
UrlTaskDone(c) ==
  cyc[c].pc = "update" /\ cyc[c].task.type = "url_analysis" /\ cyc'[c] # cyc[c]

\* row u is as it was but for last_checked_at, which is set
Stamped(u) == urls' = [urls EXCEPT ![u].checked = TRUE]

\* C22 as stated: after every dispatch of a url_analysis task the cycle has
\* stamped last_checked_at on the task's row, whatever the chat agent answered.
C22_AlwaysStamped ==
  [][\A c \in Slots : UrlTaskDone(c) => urls'[cyc[c].task.id].checked]_vars

\* C22: after a dispatch of a url_analysis task the cycle stamps
\* last_checked_at on the task's row when the update is applied, whether the
\* chat-agent call succeeded or failed, and leaves every row as it was when the
\* update throws; it changes nothing else on the row, no step of a cycle
\* changes the status of a monitored url or removes one, and a cycle whose load
\* is answered has every active url in its queue.
C22_StampedWhenWritten ==
  /\ [][\A c \in Slots : \A written \in BOOLEAN :
          (updateDatabaseAfterExecution(c, written) /\ cyc[c].task.type = "url_analysis") =>
            /\ written => Stamped(cyc[c].task.id)
            /\ ~written => urls' = urls
            /\ deps' = deps]_vars
  /\ [][\A c \in Slots : UrlTaskDone(c) =>
          (urls' = urls \/ Stamped(cyc[c].task.id))]_vars
  /\ [][cyc' # cyc =>
          \A u \in UrlIds : urls'[u].status = urls[u].status]_vars
  /\ [][\A c \in Slots :
          (cyc[c].pc = "load" /\ cyc'[c] # cyc[c]) =>
            \/ taskQueue' = taskQueue
            \/ \A u \in UrlIds : urls[u].status = "active" =>
                 \E i \in 1..Len(taskQueue') : taskQueue'[i] = UrlTask(u)]_vars

\* the url added second was dispatched and stamped, it is still active and in
\* the queue, and the url added first was dispatched and is not stamped
C22_SecondUrlStamped ==
  /\ urls[2].checked /\ urls[2].status = "active"
  /\ ~urls[1].checked /\ urls[1].status = "active"
  /\ taskQueue = <<UrlTask(1), UrlTask(2)>>
  /\ \A c \in Slots : Free(c)

(***************************************************************************)
(* handleDeployCommand                                                     *)
(***************************************************************************)

\* an insert is applied, refused as a duplicate, or fails otherwise; without
\* credentials database.initialize() throws
InsertOutcomes == IF dbConfigured THEN {"ok", "duplicate", "error"} ELSE {"error"}

Row(table, id) == [table |-> table, id |-> id]

\* a command that makes a deployment of the urls alone
DeploysUrlsAlone(r, s) == s > 0

\* extractedData.githubRepos.length > 0 && extractedData.urls.length > 0
WantsDeployment(r, s) == r > 0 /\ s > 0

\* after the loop over the urls
AfterUrls(d) ==
  [d EXCEPT !.todo = 0,
            !.pc = IF WantsDeployment(d.repos, d.socials) THEN "deployment" ELSE "done"]

\* after the loop over the repositories
AfterRepos(d) ==
  IF d.socials > 0 THEN [d EXCEPT !.pc = "url", !.todo = d.socials] ELSE AfterUrls(d)

\* one iteration of a loop is over
NextInsert(d) ==
  IF d.todo > 1 THEN [d EXCEPT !.todo = @ - 1]
  ELSE IF d.pc = "repo" THEN AfterRepos(d) ELSE AfterUrls(d)

\* the outer catch: the error text is the answer
DeployFailed(d) == [d EXCEPT !.pc = "failed"]

\* handleDeployCommand up to its first await, for a message from which r
\* repositories and s social urls were extracted
handleDeployCommand(r, s) ==
  /\ deploy.pc \in {"idle", "done", "failed"}
  /\ deploy' = LET d == [NoDeploy EXCEPT !.repos = r, !.socials = s]
               IN IF r > 0 THEN [d EXCEPT !.pc = "repo", !.todo = r] ELSE AfterRepos(d)
  /\ UNCHANGED <<dbConfigured, conn, githubRepos, intervalMinutes, timers, parse, userSessions, chats, dev, inbox, lastLoad, parked, features, resp, urls, deps, taskQueue, currentTaskIndex, initialized,
                 isRunning, intervalId, cyc, rr>>

\* addGitHubRepo resolves or throws
DeployRepo ==
  /\ deploy.pc = "repo"
  /\ \E o \in InsertOutcomes :
       CASE o = "ok" ->
              /\ githubRepos < MaxRepoRows
              /\ githubRepos' = githubRepos + 1
              /\ deploy' = NextInsert([deploy EXCEPT
                             !.written = Append(@, Row("github_repos", githubRepos + 1))])
         [] o = "duplicate" ->
              /\ githubRepos > 0
              /\ githubRepos' = githubRepos
              /\ deploy' = NextInsert(deploy)
         [] o = "error" ->
              /\ githubRepos' = githubRepos
              /\ deploy' = DeployFailed(deploy)
  /\ UNCHANGED <<dbConfigured, conn, intervalMinutes, timers, parse, userSessions, chats, dev, inbox, lastLoad, parked, features, resp, urls, deps, taskQueue, currentTaskIndex, initialized,
                 isRunning, intervalId, cyc, rr>>

\* addMonitoredUrl resolves or throws
DeployUrl ==
  /\ deploy.pc = "url"
  /\ \E o \in InsertOutcomes :
       CASE o = "ok" ->
              LET free == {u \in UrlIds : urls[u].status = "absent"} IN
              /\ free # {}
              /\ urls' = [urls EXCEPT ![Min(free)] = [status |-> "active", checked |-> FALSE]]
              /\ deploy' = NextInsert([deploy EXCEPT
                             !.written = Append(@, Row("monitored_urls", Min(free))),
                             !.firstUrl = IF deploy.hasUrl THEN @ ELSE Min(free),
                             !.hasUrl = TRUE])
         [] o = "duplicate" ->
              /\ \E u \in UrlIds : urls[u].status # "absent"
              /\ urls' = urls
              /\ deploy' = NextInsert([deploy EXCEPT !.hasUrl = TRUE])
         [] o = "error" ->
              /\ urls' = urls
              /\ deploy' = DeployFailed(deploy)
  /\ UNCHANGED <<dbConfigured, conn, githubRepos, intervalMinutes, timers, parse, userSessions, chats, dev, inbox, lastLoad, parked, features, resp, deps, taskQueue, currentTaskIndex, initialized,
                 isRunning, intervalId, cyc, rr>>

\* createDeployment resolves or throws
DeployDeployment ==
  /\ deploy.pc = "deployment"
  /\ \E o \in InsertOutcomes \ {"duplicate"} :
       CASE o = "ok" ->
              LET free == {d \in DepIds : deps[d].status = "absent"} IN
              /\ free # {}
              /\ deps' = [deps EXCEPT ![Min(free)] =
                            [NoDepRow EXCEPT !.status = "active", !.url = deploy.firstUrl]]
              /\ deploy' = [deploy EXCEPT
                              !.pc = "done",
                              !.written = Append(@, Row("orchestration_deployments", Min(free)))]
         [] o = "error" ->
              /\ deps' = deps
              /\ deploy' = DeployFailed(deploy)
  /\ UNCHANGED <<dbConfigured, conn, githubRepos, intervalMinutes, timers, parse, userSessions, chats, dev, inbox, lastLoad, parked, features, resp, urls, taskQueue, currentTaskIndex, initialized,
                 isRunning, intervalId, cyc, rr>>

DeployNext ==
  \/ \E r, s \in 0..MaxExtracted : handleDeployCommand(r, s)
  \/ DeployRepo
  \/ DeployUrl
  \/ DeployDeployment

DeploySpec == Init /\ [][DeployNext]_vars

\* the place of a table in the order of the writes
TableRank(table) ==
  CASE table = "github_repos" -> 1
    [] table = "monitored_urls" -> 2
    [] table = "orchestration_deployments" -> 3

\* the row is in the database
Present(row) ==
  CASE row.table = "github_repos" -> row.id <= githubRepos
    [] row.table = "monitored_urls" -> urls[row.id].status # "absent"
    [] row.table = "orchestration_deployments" -> deps[row.id].status # "absent"

\* C23: handleDeployCommand writes repositories, then monitored urls, then the
\* deployment; it writes a deployment only when at least one repository and at
\* least one social url were extracted; and when a write fails the rows the
\* earlier writes inserted stay in the database, the catch writing nothing.
C23_OrderedWritesNoRollback ==
  /\ [](/\ \A i, j \in 1..Len(deploy.written) :
             i < j => TableRank(deploy.written[i].table) <= TableRank(deploy.written[j].table)
        /\ \A i \in 1..Len(deploy.written) :
             /\ Present(deploy.written[i])
             /\ deploy.written[i].table = "orchestration_deployments" =>
                  deploy.repos > 0 /\ deploy.socials > 0
        /\ deploy.pc = "deployment" => deploy.repos > 0 /\ deploy.socials > 0)
  /\ [][(deploy'.pc = "failed" /\ deploy.pc # "failed") =>
          /\ deploy'.written = deploy.written
          /\ urls' = urls /\ deps' = deps /\ githubRepos' = githubRepos]_vars

\* the deployment insert failed after a repository and a url were inserted,
\* and both rows are in the database
C23_OrphansLeft ==
  /\ deploy.pc = "failed"
  /\ Len(deploy.written) = 2
  /\ deploy.written[1].table = "github_repos" /\ deploy.written[2].table = "monitored_urls"
  /\ Present(deploy.written[1]) /\ Present(deploy.written[2])
  /\ deploy.todo = 0

\* ------------------------------------------------------------------ the index after a reload

\* C25: whenever the queue is not empty, currentTaskIndex is an index of the
\* queue, and the getNextTask call of a cycle that reloaded a queue with tasks
\* in it returns one of them, also when the reload left the queue shorter than
\* the index the cycle before had left.
C25_IndexWithinQueue ==
  /\ [](taskQueue # <<>> => currentTaskIndex < Len(taskQueue))
  /\ [][\A c \in Slots :
          (cyc[c].pc = "load" /\ cyc[c].ret = "cycle" /\ cyc'[c] # cyc[c]
             /\ taskQueue' # <<>>) =>
            \E i \in 1..Len(taskQueue') : cyc'[c].task = taskQueue'[i]]_vars

(***************************************************************************)
(* addTask                                                                 *)
(***************************************************************************)

CustomIn(q) == {i \in 1..Len(q) : q[i].type = "custom"}

\* POST /api/orchestration/task: addTask pushes onto the queue
addTask ==
  /\ Cardinality(CustomIn(taskQueue)) < MaxCustom
  /\ taskQueue' = Append(taskQueue, CustomTask(Cardinality(CustomIn(taskQueue)) + 1))
  /\ rr' = Kept(taskQueue')
  /\ UNCHANGED <<dbConfigured, conn, deploy, githubRepos, intervalMinutes, timers, parse, userSessions, chats, dev, inbox, lastLoad, parked, features, resp, urls, deps, currentTaskIndex, initialized,
                 isRunning, intervalId, cyc>>

TaskNext ==
  \/ start
  \/ Tick
  \/ \E c \in Slots : CycStep(c)
  \/ addTask

TaskSpec == Init /\ [][TaskNext]_vars

\* cycle c's loadTasksFromDatabase returns
LoadReturns(c) == cyc[c].pc = "load" /\ cyc'[c] # cyc[c]

Proceeds(k, id, repo) ==
  [k EXCEPT !.calls[id] = IF repo THEN [pc |-> "emitted", repo |-> repo, live |-> k.connected]
                          ELSE [pc |-> "thrown", repo |-> repo, live |-> FALSE]]

\* the executor of the promise implementFeature returns: timeout armed,
\* callback stored
Requested(d, id) ==
  [d EXCEPT !.promise[id] = "pending", !.timers = @ \cup {id}, !.callbacks = @ \cup {id}]

\* the calls that await the promise of connect()
Awaiting(k) == {id \in MsgIds : k.calls[id].pc = "connect"}

RECURSIVE ProceedAll(_, _)
ProceedAll(k, ids) ==
  IF ids = {} THEN k
  ELSE ProceedAll(Proceeds(k, Min(ids), k.calls[Min(ids)].repo), ids \ {Min(ids)})

RECURSIVE RequestedAll(_, _)
RequestedAll(d, ids) ==
  IF ids = {} THEN d ELSE RequestedAll(Requested(d, Min(ids)), ids \ {Min(ids)})

\* reject() of the promise of connect(): the calls that await it throw
Rejected(k) ==
  IF k.attempt \in {"pending", "joining"}
  THEN [k EXCEPT !.attempt = "rejected",
                 !.calls = [id \in MsgIds |->
                              IF id \in Awaiting(k) THEN [k.calls[id] EXCEPT !.pc = "thrown"]
                              ELSE k.calls[id]]]
  ELSE k

\* implementFeature(feature) is called: connect() returns at once when
\* connected or connecting is set, and otherwise creates the socket and
\* returns the promise the call awaits
callImplementFeature(id, repo) ==
  /\ conn.calls[id].pc = "none"
  /\ IF conn.connected \/ conn.connecting
     THEN /\ conn' = Proceeds(conn, id, repo)
          /\ dev' = IF repo THEN Requested(dev, id) ELSE dev
     ELSE /\ conn' = [conn EXCEPT !.socket = TRUE, !.connecting = TRUE,
                                  !.attempt = "pending", !.timeout = TRUE,
                                  !.calls[id] = [pc |-> "connect", repo |-> repo,
                                                 live |-> FALSE]]
          /\ dev' = dev
  /\ UNCHANGED <<dbConfigured, deploy, githubRepos, intervalMinutes, timers, parse, userSessions, chats, inbox, lastLoad, parked, features, resp, urls, deps, taskQueue,
                 currentTaskIndex, initialized, isRunning, intervalId, cyc, rr>>

\* socket.on('connect'), of the first connection or of a reconnection
onConnect ==
  /\ conn.socket /\ ~conn.connected
  /\ conn' = [conn EXCEPT !.connected = TRUE,
                          !.attempt = IF @ = "pending" THEN "joining" ELSE @]
  /\ UNCHANGED <<dbConfigured, deploy, githubRepos, intervalMinutes, timers, parse, userSessions, chats, dev, inbox, lastLoad, parked, features, resp, urls, deps, taskQueue,
                 currentTaskIndex, initialized, isRunning, intervalId, cyc, rr>>

\* the connect handler has joined the channel and calls resolve()
connectResolves ==
  /\ conn.attempt = "joining"
  /\ conn' = ProceedAll([conn EXCEPT !.attempt = "resolved"], Awaiting(conn))
  /\ dev' = RequestedAll(dev, {id \in Awaiting(conn) : conn.calls[id].repo})
  /\ UNCHANGED <<dbConfigured, deploy, githubRepos, intervalMinutes, timers, parse, userSessions, chats, inbox, lastLoad, parked, features, resp, urls, deps, taskQueue,
                 currentTaskIndex, initialized, isRunning, intervalId, cyc, rr>>

\* socket.on('connect_error')
onConnectError ==
  /\ conn.socket /\ ~conn.connected
  /\ conn' = Rejected(conn)
  /\ UNCHANGED <<dbConfigured, deploy, githubRepos, intervalMinutes, timers, parse, userSessions, chats, dev, inbox, lastLoad, parked, features, resp, urls, deps, taskQueue,
                 currentTaskIndex, initialized, isRunning, intervalId, cyc, rr>>

\* the 10 s timer of connect()
connectTimeout ==
  /\ conn.timeout
  /\ conn' = [(IF conn.connected THEN conn ELSE Rejected(conn)) EXCEPT !.timeout = FALSE]
  /\ UNCHANGED <<dbConfigured, deploy, githubRepos, intervalMinutes, timers, parse, userSessions, chats, dev, inbox, lastLoad, parked, features, resp, urls, deps, taskQueue,
                 currentTaskIndex, initialized, isRunning, intervalId, cyc, rr>>

\* socket.on('disconnect')
onDisconnect ==
  /\ conn.connected
  /\ conn' = [conn EXCEPT !.connected = FALSE]
  /\ UNCHANGED <<dbConfigured, deploy, githubRepos, intervalMinutes, timers, parse, userSessions, chats, dev, inbox, lastLoad, parked, features, resp, urls, deps, taskQueue,
                 currentTaskIndex, initialized, isRunning, intervalId, cyc, rr>>

ConnNext ==
  \/ \E id \in MsgIds, repo \in BOOLEAN : callImplementFeature(id, repo)
  \/ onConnect
  \/ connectResolves
  \/ onConnectError
  \/ connectTimeout
  \/ onDisconnect

\* the client does not depend on the database
ConnInit == Init /\ dbConfigured

ConnSpec == ConnInit /\ [][ConnNext]_vars

\* C27: no implementFeature call emits its request while connected is false,
\* whether no connection was made yet, an attempt failed, or the connection
\* was lost.
C27_EmitsOnlyConnected ==
  \A id \in MsgIds : conn.calls[id].pc = "emitted" => conn.calls[id].live

\* ------------------------------------------------------------------ a feature without a repository

\* the feature cycle c is at, when it names no repository
AtRepoless(c) ==
  /\ cyc[c].todo # <<>>
  /\ features[Head(cyc[c].todo)].status # "absent"
  /\ ~features[Head(cyc[c].todo)].github_repo

ReceivedContent(c, content) ==
  Received(c, Branch(parseImplementationResponse(content)))

\* C29: the loop writes shipped only after a response with both '✅' and
\* 'Implementation Complete', with or without a pull-request URL and whatever
\* else the content holds, and after a received response it writes failed only
\* when the content had both '❌' and 'Implementation Failed' and not the
\* success pair.
C29_MarkersDecideStatus ==
  [][/\ \A c \in Slots : \A content \in Contents :
          ReceivedContent(c, content) =>
            /\ cyc'[c].pc = "markShipped" <=> (content.check /\ content.complete)
            /\ cyc'[c].parsed = "failed" <=>
                 /\ content.cross /\ content.failedText
                 /\ ~(content.check /\ content.complete)
     /\ \A f \in 1..NumFeatures :
          (features'[f].status = "shipped" /\ features[f].status # "shipped") =>
            \E c \in Slots : /\ cyc[c].pc = "markShipped"
                             /\ cyc[c].parsed = "complete"
                             /\ cyc[c].todo # <<>> /\ Head(cyc[c].todo) = f
     /\ \A c \in Slots :
          (/\ cyc[c].parsed # "none"
           /\ cyc[c].pc \in {"markFailed", "catch"}
           /\ cyc'[c] # cyc[c]
           /\ features'[Head(cyc[c].todo)].implementation_failed_at
           /\ features'[Head(cyc[c].todo)].status = "failed"
           /\ cyc'[c].pc # "catch" /\ ~(cyc[c].pc = "catch" /\ cyc'[c].pc = "pend")) =>
            cyc[c].parsed = "failed"]_vars

\* ------------------------------------------------------------------ an error in the feature loop

\* C30: an error at one feature of the loop marks that feature failed and no
\* other row, the loop leaves its features one at a time, so that every
\* remaining one is still processed, and after the loop the cycle goes on to
\* reload the queue and to dispatch.
C30_ErrorSkipsOnlyThatFeature ==
  [][\A c \in Slots :
       /\ (cyc[c].pc = "catch" /\ cyc'[c] # cyc[c]) =>
            /\ features'[Head(cyc[c].todo)].status = "failed"
            /\ \A g \in 1..NumFeatures :
                 g # Head(cyc[c].todo) => features'[g] = features[g]
       /\ (cyc[c].todo # <<>> /\ cyc'[c].todo # cyc[c].todo) =>
            cyc'[c].todo = Tail(cyc[c].todo)
       /\ (cyc[c].pc = "pend" /\ cyc'[c] # cyc[c]) =>
            cyc'[c].pc = "load" /\ cyc'[c].ret = "cycle"]_vars

====
